---- MODULE Spec2Model ----
(***************************************************************************)
(* Model of github_api_tester_clean.py: the GitHubAPITester class (request *)
(* executor, the three pattern drivers, the result store and its           *)
(* consumers) and the main() script that drives it.                        *)
(*                                                                         *)
(* Python strings that the code inspects (header values, response bodies,  *)
(* exception messages, the token) are sequences of one-character strings,  *)
(* so that truncation, emptiness and int() parsing are computed.  Times    *)
(* are integers in milliseconds (0.5 s = 500).                             *)
(***************************************************************************)
EXTENDS Integers, Sequences, FiniteSets, TLC

VARIABLES
    entry,      \* "library": a client drives the class; "script": __main__ runs main()
    env,        \* os.getenv('GITHUB_TOKEN'): None or a string
    tester,     \* "none" | "ready" | "error": the outcome of GitHubAPITester(...)
    token,      \* self.token
    session,    \* TRUE once requests.Session() has been created
    results,    \* self.results
    now,        \* the wall clock (ms)
    trace,      \* history of the side effects: session.get calls and time.sleep calls
    faults,     \* number of non-nominal request outcomes so far
    drv,        \* the frame of the pattern driver being (or last) executed
    csv,        \* the CSV file written by save_results
    png,        \* TRUE once api_test_visualization.png has been written
    report,     \* the text report written by generate_report
    analysis,   \* what the caller last got from analyze_results
    mainpc,     \* position of main()
    stages,     \* history of the calls main() has made on the tester
    exited,     \* TRUE once the interpreter has exited
    exitStatus  \* the process exit status (meaningful once exited)

vars == <<entry, env, tester, token, session, results, now, trace, faults, drv,
          csv, png, report, analysis, mainpc, stages, exited, exitStatus>>

----------------------------------------------------------------------------
(* Bounds of the model *)

\* a library session issues at most this many requests in total
MaxRequests == 3

\* a run meets at most this many non-nominal request outcomes
MaxFaults == 1

\* the stores handed to the consumers directly hold at most this many records
MaxStore == 5

----------------------------------------------------------------------------
(* Program constants *)

TruncLen == 200
BurstN == 10
SustainedN == 20
SustainedInterval == 500
DelayedN == 15
InitialDelay == 1000
DelayIncrement == 500
ExitOnReturn == 0
ExitOnException == 1

\* Python's None, distinct from every character sequence
None == <<"<None>">>
\* the 'N/A' sentinel of the rate-limit fields
NA == <<"N", "/", "A">>
DefaultEndpoint == "/users/octocat"

Min(a, b) == IF a < b THEN a ELSE b
Max(a, b) == IF a > b THEN a ELSE b

\* Python truthiness of Optional[str]
Truthy(s) == s # None /\ s # <<>>

----------------------------------------------------------------------------
(* The environment: what one session.get call can produce *)

HRemaining == "X-RateLimit-Remaining"
HLimit == "X-RateLimit-Limit"
HReset == "X-RateLimit-Reset"

NoHeaders == [h \in {} |-> <<>>]
FullHeaders(rem) ==
    (HRemaining :> rem) @@ (HLimit :> <<"6", "0">>) @@ (HReset :> <<"1", "7">>)
OnlyRemaining(rem) == (HRemaining :> rem)

LongBody == [i \in 1..(TruncLen + 1) |-> "x"]

Response(status, headers, text, elapsed) ==
    [kind |-> "response", status |-> status, headers |-> headers,
     text |-> text, msg |-> <<>>, elapsed |-> elapsed]
Raised(msg, elapsed) ==
    [kind |-> "exception", status |-> 0, headers |-> NoHeaders,
     text |-> <<>>, msg |-> msg, elapsed |-> elapsed]

Nominal == Response(200, FullHeaders(<<"5", "9">>), <<"{", "}">>, 100)
FaultOutcomes ==
    { Response(403, FullHeaders(<<"0">>), LongBody, 120),
      Response(202, NoHeaders, <<>>, 90),
      Response(200, OnlyRemaining(<<"5", "8">>), <<"{", "}">>, 110),
      Raised(<<"r", "e", "f", "u", "s", "e", "d">>, 30),
      Raised(<<>>, 30) }
Outcomes == {Nominal} \cup FaultOutcomes

\* values a caller may pass for token / find in GITHUB_TOKEN
TokenValues == {None, <<>>, <<"t", "k">>}
Intervals == {500, 1000}
InitialDelays == {1000}
Increments == {0, 500}

----------------------------------------------------------------------------
(* make_request *)

HeaderGet(headers, name, default) ==
    IF name \in DOMAIN headers THEN headers[name] ELSE default

Truncate(s) == SubSeq(s, 1, Min(Len(s), TruncLen))

\* make_request taking success from response.ok (status below 400)
MakeRecordOk(o, endpoint, start, end) ==
    [timestamp |-> end,
     endpoint |-> endpoint,
     status_code |-> o.status,
     response_time_ms |-> end - start,
     rate_limit_remaining |-> HeaderGet(o.headers, HRemaining, NA),
     rate_limit_limit |-> HeaderGet(o.headers, HLimit, NA),
     rate_limit_reset |-> HeaderGet(o.headers, HReset, NA),
     success |-> (o.kind = "response" /\ o.status < 400),
     error |-> IF o.kind = "response"
               THEN (IF o.status # 200 THEN Truncate(o.text) ELSE None)
               ELSE o.msg]

\* make_request leaving error unset in the except branch
MakeRecordNoError(o, endpoint, start, end) ==
    [timestamp |-> end,
     endpoint |-> endpoint,
     status_code |-> o.status,
     response_time_ms |-> end - start,
     rate_limit_remaining |-> HeaderGet(o.headers, HRemaining, NA),
     rate_limit_limit |-> HeaderGet(o.headers, HLimit, NA),
     rate_limit_reset |-> HeaderGet(o.headers, HReset, NA),
     success |-> (o.kind = "response" /\ o.status = 200),
     error |-> IF o.kind = "response" /\ o.status # 200
               THEN Truncate(o.text)
               ELSE None]

MakeRecord(o, endpoint, start, end) ==
    IF o.kind = "response"
    THEN LET result ==
                 [timestamp |-> end,
                  endpoint |-> endpoint,
                  status_code |-> o.status,
                  response_time_ms |-> end - start,
                  rate_limit_remaining |-> HeaderGet(o.headers, HRemaining, NA),
                  rate_limit_limit |-> HeaderGet(o.headers, HLimit, NA),
                  rate_limit_reset |-> HeaderGet(o.headers, HReset, NA),
                  success |-> (o.status = 200),
                  error |-> None]
         IN  IF o.status # 200
             THEN [result EXCEPT !.error = Truncate(o.text)]
             ELSE result
    ELSE [timestamp |-> end,
          endpoint |-> endpoint,
          status_code |-> 0,
          response_time_ms |-> end - start,
          rate_limit_remaining |-> NA,
          rate_limit_limit |-> NA,
          rate_limit_reset |-> NA,
          success |-> FALSE,
          error |-> o.msg]

\* make_request without the record of a transport failure
AppendUnlessRaised(store, result) ==
    IF result.status_code = 0 THEN store ELSE Append(store, result)

\* self.results.append(result)
AppendResult(store, result) == Append(store, result)

IsFault(o) == o # Nominal

\* The responses that depart from the nominal one are explored among the
\* requests that find fewer than this many records in the store; later
\* requests of a long run get the nominal response.
FaultWindow == 2 * MaxRequests

FaultAllowed(o) == ~IsFault(o) \/ (faults < MaxFaults /\ Len(results) < FaultWindow)

\* one execution of make_request(endpoint) under outcome o of session.get
RequestResult(o) == MakeRecord(o, DefaultEndpoint, now, now + o.elapsed)

DoRequest(o) ==
    LET end == now + o.elapsed
        result == RequestResult(o)
    IN  /\ now' = end
        /\ trace' = Append(trace, [ev |-> "get", at |-> end, d |-> 0, status |-> o.status])
        /\ results' = AppendResult(results, result)
        /\ faults' = IF IsFault(o) THEN faults + 1 ELSE faults

----------------------------------------------------------------------------
(* GitHubAPITester.__init__ *)

\* self.token = token or os.getenv('GITHUB_TOKEN')
EffectiveToken(arg, environ) == IF Truthy(arg) THEN arg ELSE environ

\* the check written as `token is None`
TokenIsNone(t) == t = None

\* if not self.token: raise ValueError  /  if not token: return
TokenMissing(t) == ~Truthy(t)

\* the constructor called with `arg`: raises before the session exists, or
\* creates the session and the empty result store
ConstructWith(arg) ==
    LET t == EffectiveToken(arg, env)
    IN  IF TokenMissing(t)
        THEN /\ tester' = "error"
             /\ UNCHANGED <<token, session, results>>
        ELSE /\ tester' = "ready"
             /\ token' = t
             /\ session' = TRUE
             /\ results' = <<>>

----------------------------------------------------------------------------
(* The pattern drivers *)

IdleFrame ==
    [name |-> "none", phase |-> "idle", i |-> 0, num_requests |-> 0,
     interval |-> 0, initial_delay |-> 0, delay_increment |-> 0,
     current_delay |-> 0, local |-> <<>>, t0 |-> 0, r0 |-> 0]

\* the frame of a driver on entry; t0 and r0 remember how long the trace and
\* the result store were when the driver was called
EnterFrame(name, n, interval, initial_delay, delay_increment) ==
    [name |-> name, phase |-> "request", i |-> 0, num_requests |-> n,
     interval |-> interval, initial_delay |-> initial_delay,
     delay_increment |-> delay_increment, current_delay |-> initial_delay,
     local |-> <<>>, t0 |-> Len(trace), r0 |-> Len(results)]

Idle == drv.phase \in {"idle", "done"}

\* a loop that gives up after a failed request
DriverDoneOrFailed(f) ==
    \/ f.i >= f.num_requests
    \/ (f.local # <<>> /\ ~f.local[Len(f.local)].success)

\* for i in range(num_requests): the loop ends when the range is exhausted
DriverDone(f) == f.i >= f.num_requests

\* a sleep after every request, the last one included
SleepsAlways(i, n) == i < n

\* if i < num_requests - 1 (sustained)
SustainedSleeps(i, n) == i < n - 1

\* if i < num_requests - 1 (delayed)
DelayedSleeps(i, n) == i < n - 1

Sleeps(f) ==
    CASE f.name = "sustained" -> SustainedSleeps(f.i, f.num_requests)
      [] f.name = "delayed" -> DelayedSleeps(f.i, f.num_requests)
      [] OTHER -> FALSE

\* the argument of time.sleep
SleepDuration(f) == IF f.name = "sustained" THEN f.interval ELSE f.current_delay

\* a delay that grows by twice the increment
NextDelayDoubled(current_delay, delay_increment) == current_delay + 2 * delay_increment

\* current_delay += delay_increment
NextDelay(current_delay, delay_increment) == current_delay + delay_increment

\* the frame once make_request has returned `result` in iteration f.i
AfterRequest(f, result) ==
    LET g == [f EXCEPT !.local = Append(f.local, result)]
    IN  IF Sleeps(f)
        THEN [g EXCEPT !.phase = "sleep"]
        ELSE [g EXCEPT !.i = f.i + 1]

\* the frame once time.sleep has returned
AfterSleep(f) ==
    [f EXCEPT !.phase = "request",
              !.i = f.i + 1,
              !.current_delay = IF f.name = "delayed"
                                THEN NextDelay(f.current_delay, f.delay_increment)
                                ELSE f.current_delay]

\* one loop iteration up to and including results.append(result)
DriverRequest ==
    /\ drv.phase = "request"
    /\ ~DriverDone(drv)
    /\ \E o \in Outcomes :
          /\ FaultAllowed(o)
          /\ DoRequest(o)
          /\ drv' = AfterRequest(drv, RequestResult(o))
    /\ UNCHANGED <<entry, env, tester, token, session, csv, png, report,
                   analysis, mainpc, stages, exited, exitStatus>>

\* time.sleep(...) and the rest of the iteration
DriverSleep ==
    /\ drv.phase = "sleep"
    /\ now' = now + SleepDuration(drv)
    /\ trace' = Append(trace, [ev |-> "sleep", at |-> now',
                               d |-> SleepDuration(drv), status |-> 0])
    /\ drv' = AfterSleep(drv)
    /\ UNCHANGED <<entry, env, tester, token, session, results, faults, csv, png,
                   report, analysis, mainpc, stages, exited, exitStatus>>

\* return results
DriverReturn ==
    /\ drv.phase = "request"
    /\ DriverDone(drv)
    /\ drv' = [drv EXCEPT !.phase = "done"]
    /\ UNCHANGED <<entry, env, tester, token, session, results, now, trace, faults,
                   csv, png, report, analysis, mainpc, stages, exited, exitStatus>>

----------------------------------------------------------------------------
(* Decimal numbers as text *)

Digits == <<"0", "1", "2", "3", "4", "5", "6", "7", "8", "9">>
IsDigit(c) == \E k \in 1..Len(Digits) : Digits[k] = c
DigitVal(c) == (CHOOSE k \in 1..Len(Digits) : Digits[k] = c) - 1

\* int(s) and pd.to_numeric accept s (a string of decimal digits)
IsIntLiteral(s) == Len(s) > 0 /\ \A k \in 1..Len(s) : IsDigit(s[k])

RECURSIVE ParseInt(_)
ParseInt(s) ==
    IF s = <<>> THEN 0
    ELSE 10 * ParseInt(SubSeq(s, 1, Len(s) - 1)) + DigitVal(s[Len(s)])

----------------------------------------------------------------------------
(* save_results *)

\* the keys of a record, in the order the dict literal of the try branch of
\* make_request lists them
FieldOrder ==
    <<"timestamp", "endpoint", "status_code", "response_time_ms",
      "rate_limit_remaining", "rate_limit_limit", "rate_limit_reset",
      "success", "error">>

\* an except branch that lists error before success
ExceptionFieldOrderSwapped ==
    <<"timestamp", "endpoint", "status_code", "response_time_ms",
      "rate_limit_remaining", "rate_limit_limit", "rate_limit_reset",
      "error", "success">>

\* the keys in the order the dict literal of the except branch lists them
ExceptionFieldOrder ==
    <<"timestamp", "endpoint", "status_code", "response_time_ms",
      "rate_limit_remaining", "rate_limit_limit", "rate_limit_reset",
      "success", "error">>

\* result.keys(): a record with status_code 0 comes from the except branch
KeysOf(r) == IF r.status_code = 0 THEN ExceptionFieldOrder ELSE FieldOrder

Range(seq) == {seq[k] : k \in 1..Len(seq)}

\* str(n) for n >= 0
RECURSIVE IntStr(_)
IntStr(n) ==
    IF n < 10 THEN <<Digits[n + 1]>>
    ELSE Append(IntStr(n \div 10), Digits[(n % 10) + 1])

\* the text csv.writer puts in the cell of field `key`: None gives the empty
\* string, numbers and booleans their str(); the endpoint is one opaque token
CellOf(key, v) ==
    CASE key \in {"timestamp", "status_code", "response_time_ms"} -> IntStr(v)
      [] key = "endpoint" -> <<v>>
      [] key = "success" -> IF v THEN <<"T", "r", "u", "e">>
                                 ELSE <<"F", "a", "l", "s", "e">>
      [] key = "error" -> IF v = None THEN <<>> ELSE v
      [] OTHER -> v

\* the cells DictWriter writes for record r under the header
RowOf(header, r) == [j \in 1..Len(header) |-> CellOf(header[j], r[header[j]])]

\* DictWriter raises ValueError on a row with a key that is not a fieldname
SaveRaises(store) ==
    \E k \in 1..Len(store) : ~(Range(KeysOf(store[k])) \subseteq Range(KeysOf(store[1])))

NoFile == [said |-> "", written |-> FALSE, raised |-> FALSE, header |-> <<>>, rows |-> <<>>]

\* save_results and its printed line: no file when the store is empty,
\* otherwise the header row and one row per record, up to a row that raises
SavedCsv(store, old) ==
    IF store = <<>>
    THEN [old EXCEPT !.said = "No results to save."]
    ELSE LET header == KeysOf(store[1])
             bad == {k \in 1..Len(store) : ~(Range(KeysOf(store[k])) \subseteq Range(header))}
             n == IF bad = {} THEN Len(store)
                  ELSE (CHOOSE k \in bad : \A m \in bad : k <= m) - 1
         IN  [said |-> IF bad = {} THEN "Results saved" ELSE "",
              written |-> TRUE,
              raised |-> SaveRaises(store),
              header |-> header,
              rows |-> [k \in 1..n |-> RowOf(header, store[k])]]

----------------------------------------------------------------------------
(* analyze_results *)

\* NaN, the result of pd.to_numeric(errors='coerce') on a non-numeric string
NaN == 0 - 1
ToNumeric(s) == IF IsIntLiteral(s) THEN ParseInt(s) ELSE NaN

EmptyDict == [k \in {} |-> 0]

\* the caller has not called analyze_results
NotAnalyzed == [unset |-> TRUE]
\* the caller's call of analyze_results ended in a ValueError
AnalysisRaised == [exception |-> "ValueError"]

\* df[df['rate_limit_remaining'] != 'N/A']
RateLimitData(store) == SelectSeq(store, LAMBDA r : r.rate_limit_remaining # NA)

\* int(rate_limit_data['rate_limit_limit'].iloc[0]) raises ValueError
AnalyzeRaises(store) ==
    /\ store # <<>>
    /\ RateLimitData(store) # <<>>
    /\ ~IsIntLiteral(RateLimitData(store)[1].rate_limit_limit)

CountWhere(store, P(_)) == Len(SelectSeq(store, P))

RECURSIVE SumTimes(_)
SumTimes(store) ==
    IF store = <<>> THEN 0
    ELSE SumTimes(SubSeq(store, 1, Len(store) - 1)) + store[Len(store)].response_time_ms

RECURSIVE SumSquares(_)
SumSquares(store) ==
    IF store = <<>> THEN 0
    ELSE SumSquares(SubSeq(store, 1, Len(store) - 1))
         + store[Len(store)].response_time_ms * store[Len(store)].response_time_ms

\* Series.std(): the root of the sample variance, kept as the variance
\* <<n * sum(x^2) - sum(x)^2, n * (n - 1)>>; a zero denominator is NaN
StdOf(store) ==
    [variance |-> <<Len(store) * SumSquares(store) - SumTimes(store) * SumTimes(store),
                    Len(store) * (Len(store) - 1)>>]

\* 100 - remaining / limit * 100 as a ratio; <<0, 0>> is NaN
UsageOf(final, limit) ==
    IF final = NaN THEN <<0, 0>> ELSE <<100 * limit - 100 * final, limit>>

StatusCodes(store) == {store[k].status_code : k \in 1..Len(store)}

\* the summary of a non-empty store, when analyze_results does not raise.
\* Ratios are pairs <<numerator, denominator>>.
Summary(store) ==
         LET ok == CountWhere(store, LAMBDA r : r.success = TRUE)
             ko == CountWhere(store, LAMBDA r : r.success = FALSE)
             times == {store[k].response_time_ms : k \in 1..Len(store)}
             basic ==
                 [total_requests |-> Len(store),
                  successful_requests |-> ok,
                  failed_requests |-> ko,
                  success_rate |-> <<ok * 100, Len(store)>>,
                  avg_response_time_ms |-> <<SumTimes(store), Len(store)>>,
                  min_response_time_ms |-> CHOOSE t \in times : \A u \in times : t <= u,
                  max_response_time_ms |-> CHOOSE t \in times : \A u \in times : t >= u,
                  std_response_time_ms |-> StdOf(store),
                  status_code_counts |->
                      [c \in StatusCodes(store) |->
                          CountWhere(store, LAMBDA r : r.status_code = c)]]
             rl == RateLimitData(store)
         IN  IF rl = <<>>
             THEN basic
             ELSE LET final == ToNumeric(rl[Len(rl)].rate_limit_remaining)
                      limit == ParseInt(rl[1].rate_limit_limit)
                  IN  basic @@
                      [final_rate_limit_remaining |-> final,
                       rate_limit_usage |-> UsageOf(final, limit)]

\* analyze_results without its guard, reporting zeros for an empty store
AnalyzeUnguarded(store) ==
    IF store = <<>>
    THEN [total_requests |-> 0, successful_requests |-> 0, failed_requests |-> 0]
    ELSE Summary(store)

\* the dictionary analyze_results returns when it does not raise
Analyze(store) == IF store = <<>> THEN EmptyDict ELSE Summary(store)

----------------------------------------------------------------------------
(* create_visualizations and generate_report *)

\* api_test_visualization.png exists after create_visualizations
Visualized(store, old) == IF store = <<>> THEN old ELSE TRUE

NoReport == [written |-> FALSE]

DictGet(d, key, default) == IF key \in DOMAIN d THEN d[key] ELSE default

\* the report file generate_report writes for the dictionary `a`
ReportOf(a) ==
    [written |-> TRUE,
     total_requests |-> DictGet(a, "total_requests", 0),
     successful_requests |-> DictGet(a, "successful_requests", 0),
     failed_requests |-> DictGet(a, "failed_requests", 0),
     success_rate |-> DictGet(a, "success_rate", <<0, 1>>),
     avg_response_time_ms |-> DictGet(a, "avg_response_time_ms", <<0, 1>>),
     min_response_time_ms |-> DictGet(a, "min_response_time_ms", 0),
     max_response_time_ms |-> DictGet(a, "max_response_time_ms", 0),
     std_response_time_ms |-> DictGet(a, "std_response_time_ms", [variance |-> <<0, 1>>]),
     status_lines |-> DictGet(a, "status_code_counts", EmptyDict),
     rate_limit_section |-> "final_rate_limit_remaining" \in DOMAIN a]

----------------------------------------------------------------------------
(* A client that imports the module and calls the class *)

Ready == entry = "library" /\ tester = "ready" /\ Idle

\* save_results has been called
Saved == csv.said # "" \/ csv.written

\* The client explored here issues its requests first and post-processes
\* afterwards, as main() does: once a file or a summary exists it issues no
\* further request.
PostProcessing == Saved \/ png \/ report.written \/ analysis # NotAnalyzed

\* GitHubAPITester(token)
Construct ==
    /\ entry = "library"
    /\ tester = "none"
    /\ \E arg \in TokenValues : ConstructWith(arg)
    /\ UNCHANGED <<entry, env, now, trace, faults, drv, csv, png, report,
                   analysis, mainpc, stages, exited, exitStatus>>

Enter(frame) ==
    /\ drv' = frame
    /\ UNCHANGED <<entry, env, tester, token, session, results, now, trace, faults,
                   csv, png, report, analysis, mainpc, stages, exited, exitStatus>>

\* tester.test_burst_pattern(n)
CallBurst ==
    /\ Ready
    /\ ~PostProcessing
    /\ \E n \in 0..(MaxRequests - Len(results)) :
          Enter(EnterFrame("burst", n, 0, 0, 0))

\* tester.test_sustained_pattern(n, interval)
CallSustained ==
    /\ Ready
    /\ ~PostProcessing
    /\ \E n \in 0..(MaxRequests - Len(results)) : \E interval \in Intervals :
          Enter(EnterFrame("sustained", n, interval, 0, 0))

\* tester.test_delayed_pattern(n, initial_delay, delay_increment)
CallDelayed ==
    /\ Ready
    /\ ~PostProcessing
    /\ \E n \in 0..(MaxRequests - Len(results)) :
       \E d0 \in InitialDelays : \E inc \in Increments :
          Enter(EnterFrame("delayed", n, 0, d0, inc))

\* tester.make_request()
CallMakeRequest ==
    /\ Ready
    /\ ~PostProcessing
    /\ Len(results) < MaxRequests
    /\ \E o \in Outcomes : FaultAllowed(o) /\ DoRequest(o)
    /\ drv' = IdleFrame
    /\ UNCHANGED <<entry, env, tester, token, session, csv, png, report,
                   analysis, mainpc, stages, exited, exitStatus>>

\* save_results emptying the store once it is written
CallSaveAndClear ==
    /\ Ready
    /\ csv' = SavedCsv(results, csv)
    /\ results' = <<>>
    /\ drv' = IdleFrame
    /\ UNCHANGED <<entry, env, tester, token, session, now, trace, faults,
                   png, report, analysis, mainpc, stages, exited, exitStatus>>

\* tester.save_results()
CallSave ==
    /\ Ready
    /\ csv' = SavedCsv(results, csv)
    /\ drv' = IdleFrame
    /\ UNCHANGED <<entry, env, tester, token, session, results, now, trace, faults,
                   png, report, analysis, mainpc, stages, exited, exitStatus>>

\* tester.analyze_results(); a ValueError leaves the client without a summary
CallAnalyze ==
    /\ Ready
    /\ analysis' = IF AnalyzeRaises(results) THEN AnalysisRaised ELSE Analyze(results)
    /\ drv' = IdleFrame
    /\ UNCHANGED <<entry, env, tester, token, session, results, now, trace, faults,
                   csv, png, report, mainpc, stages, exited, exitStatus>>

\* tester.create_visualizations()
CallVisualize ==
    /\ Ready
    /\ png' = Visualized(results, png)
    /\ drv' = IdleFrame
    /\ UNCHANGED <<entry, env, tester, token, session, results, now, trace, faults,
                   csv, report, analysis, mainpc, stages, exited, exitStatus>>

\* the dictionary a client can pass on: the summary it holds, else {}
ReportArg == IF analysis \in {NotAnalyzed, AnalysisRaised} THEN EmptyDict ELSE analysis

\* tester.generate_report(analysis) with the summary last obtained
CallReport ==
    /\ Ready
    /\ report' = ReportOf(ReportArg)
    /\ drv' = IdleFrame
    /\ UNCHANGED <<entry, env, tester, token, session, results, now, trace, faults,
                   csv, png, analysis, mainpc, stages, exited, exitStatus>>

----------------------------------------------------------------------------
(* main() and the __main__ guard *)

\* token = os.getenv('GITHUB_TOKEN'); if not token: print the error and return
MainStart ==
    /\ entry = "script"
    /\ mainpc = "start"
    /\ mainpc' = IF TokenMissing(env) THEN "returned" ELSE "construct"
    /\ UNCHANGED <<entry, env, tester, token, session, results, now, trace, faults,
                   drv, csv, png, report, analysis, stages, exited, exitStatus>>

\* tester = GitHubAPITester(token)
MainConstruct ==
    /\ mainpc = "construct"
    /\ ConstructWith(env)
    /\ mainpc' = IF tester' = "ready" THEN "burst" ELSE "raised"
    /\ UNCHANGED <<entry, env, now, trace, faults, drv, csv, png, report,
                   analysis, stages, exited, exitStatus>>

MainEnter(frame, next) ==
    /\ drv' = frame
    /\ mainpc' = next
    /\ stages' = Append(stages, frame.name)
    /\ UNCHANGED <<entry, env, tester, token, session, results, now, trace, faults,
                   csv, png, report, analysis, exited, exitStatus>>

\* tester.test_burst_pattern(num_requests=10)
MainBurst ==
    /\ mainpc = "burst"
    /\ MainEnter(EnterFrame("burst", BurstN, 0, 0, 0), "sustained")

\* tester.test_sustained_pattern(num_requests=20, interval=0.5)
MainSustained ==
    /\ mainpc = "sustained"
    /\ drv.phase = "done"
    /\ MainEnter(EnterFrame("sustained", SustainedN, SustainedInterval, 0, 0), "delayed")

\* tester.test_delayed_pattern(num_requests=15, initial_delay=1.0, delay_increment=0.5)
MainDelayed ==
    /\ mainpc = "delayed"
    /\ drv.phase = "done"
    /\ MainEnter(EnterFrame("delayed", DelayedN, 0, InitialDelay, DelayIncrement), "save")

\* tester.save_results("github_api_test_results.csv")
MainSave ==
    /\ mainpc = "save"
    /\ drv.phase = "done"
    /\ csv' = SavedCsv(results, csv)
    /\ mainpc' = "analyze"
    /\ stages' = Append(stages, "save")
    /\ UNCHANGED <<entry, env, tester, token, session, results, now, trace, faults,
                   drv, png, report, analysis, exited, exitStatus>>

\* analysis = tester.analyze_results(); an exception leaves main() at once
MainAnalyze ==
    /\ mainpc = "analyze"
    /\ stages' = Append(stages, "analyze")
    /\ IF AnalyzeRaises(results)
       THEN mainpc' = "raised" /\ analysis' = analysis
       ELSE mainpc' = "visualize" /\ analysis' = Analyze(results)
    /\ UNCHANGED <<entry, env, tester, token, session, results, now, trace, faults,
                   drv, csv, png, report, exited, exitStatus>>

\* tester.create_visualizations()
MainVisualize ==
    /\ mainpc = "visualize"
    /\ png' = Visualized(results, png)
    /\ mainpc' = "report"
    /\ stages' = Append(stages, "visualize")
    /\ UNCHANGED <<entry, env, tester, token, session, results, now, trace, faults,
                   drv, csv, report, analysis, exited, exitStatus>>

\* tester.generate_report(analysis), then the closing prints and the return
MainReport ==
    /\ mainpc = "report"
    /\ report' = ReportOf(analysis)
    /\ mainpc' = "returned"
    /\ stages' = Append(stages, "report")
    /\ UNCHANGED <<entry, env, tester, token, session, results, now, trace, faults,
                   drv, csv, png, analysis, exited, exitStatus>>

\* an exit status that reports the early return as a failure
StatusAfterChecked(pc) ==
    IF pc = "returned" /\ tester = "ready" THEN ExitOnReturn ELSE ExitOnException

\* the status the interpreter exits with: main() is called bare, its return
\* value is discarded and no sys.exit is made
StatusAfter(pc) == IF pc = "returned" THEN ExitOnReturn ELSE ExitOnException

\* if __name__ == "__main__": main()  -- the interpreter ends
MainExit ==
    /\ mainpc \in {"returned", "raised"}
    /\ ~exited
    /\ exited' = TRUE
    /\ exitStatus' = StatusAfter(mainpc)
    /\ UNCHANGED <<entry, env, tester, token, session, results, now, trace, faults,
                   drv, csv, png, report, analysis, mainpc, stages>>

----------------------------------------------------------------------------
(* Specifications *)

InitCommon ==
    /\ env \in TokenValues
    /\ tester = "none"
    /\ token = None
    /\ session = FALSE
    /\ results = <<>>
    /\ now = 0
    /\ trace = <<>>
    /\ faults = 0
    /\ drv = IdleFrame
    /\ csv = NoFile
    /\ png = FALSE
    /\ report = NoReport
    /\ analysis = NotAnalyzed
    /\ stages = <<>>
    /\ exited = FALSE
    /\ exitStatus = 0

\* the module is imported and the class is used by a client
Init == entry = "library" /\ mainpc = "none" /\ InitCommon

\* the module is imported and used, or run as a script
InitProgram ==
    /\ entry \in {"library", "script"}
    /\ mainpc = (IF entry = "script" THEN "start" ELSE "none")
    /\ InitCommon

Next ==
    \/ Construct
    \/ CallBurst
    \/ CallSustained
    \/ CallDelayed
    \/ CallMakeRequest
    \/ DriverRequest
    \/ DriverSleep
    \/ DriverReturn
    \/ CallSave
    \/ CallAnalyze
    \/ CallVisualize
    \/ CallReport

NextProgram ==
    \/ Next
    \/ MainStart
    \/ MainConstruct
    \/ MainBurst
    \/ MainSustained
    \/ MainDelayed
    \/ MainSave
    \/ MainAnalyze
    \/ MainVisualize
    \/ MainReport
    \/ MainExit

\* the state a client reaches by calling make_request once per outcome of outs
RECURSIVE Replay(_)
Replay(outs) ==
    IF outs = <<>>
    THEN [results |-> <<>>, trace |-> <<>>, now |-> 0, faults |-> 0]
    ELSE LET p == Replay(SubSeq(outs, 1, Len(outs) - 1))
             o == outs[Len(outs)]
             end == p.now + o.elapsed
         IN  [results |-> AppendResult(p.results, MakeRecord(o, DefaultEndpoint, p.now, end)),
              trace |-> Append(p.trace, [ev |-> "get", at |-> end, d |-> 0, status |-> o.status]),
              now |-> end,
              faults |-> p.faults + (IF IsFault(o) THEN 1 ELSE 0)]

\* a tester whose store holds the records of up to MaxStore requests of any
\* outcomes, about to be post-processed
InitStore ==
    /\ entry = "library"
    /\ mainpc = "none"
    /\ env = None
    /\ tester = "ready"
    /\ token = <<"t", "k">>
    /\ session = TRUE
    /\ \E n \in 0..MaxStore : \E outs \in [1..n -> Outcomes] :
          /\ results = Replay(outs).results
          /\ trace = Replay(outs).trace
          /\ now = Replay(outs).now
          /\ faults = Replay(outs).faults
    /\ drv = IdleFrame
    /\ csv = NoFile
    /\ png = FALSE
    /\ report = NoReport
    /\ analysis = NotAnalyzed
    /\ stages = <<>>
    /\ exited = FALSE
    /\ exitStatus = 0

NextStore ==
    \/ CallSave
    \/ CallAnalyze
    \/ CallReport

Spec == Init /\ [][Next]_vars

\* the consumers applied to a given store
SpecStore == InitStore /\ [][NextStore]_vars

SpecProgram == InitProgram /\ [][NextProgram]_vars

----------------------------------------------------------------------------
(* Properties *)

IsPrefix(a, b) == Len(a) <= Len(b) /\ SubSeq(b, 1, Len(a)) = a

\* the session.get calls of a trace, in order
Gets(tr) == SelectSeq(tr, LAMBDA e : e.ev = "get")

\* what the driver of frame drv has done since it was called
CallTrace == SubSeq(trace, drv.t0 + 1, Len(trace))

\* C1: the result store holds exactly one record per request issued, and the
\* i-th record is the one made from the i-th request (its completion time and
\* its status), whatever the outcomes were.
C1_OneRecordPerRequest ==
    LET g == Gets(trace)
    IN  /\ Len(results) = Len(g)
        /\ \A k \in 1..Len(g) :
              /\ results[k].timestamp = g[k].at
              /\ results[k].status_code = g[k].status

C1_Witness ==
    /\ Len(results) >= 3
    /\ ~results[2].success
    /\ results[3].success

\* C2: in every step the old content of the result store is a prefix of the
\* new one, and the store grows only by the one record of a request issued in
\* that step.
C2_AppendOnly ==
    [][/\ IsPrefix(results, results')
       /\ results' # results =>
             /\ Len(results') = Len(results) + 1
             /\ Len(trace') = Len(trace) + 1
             /\ trace'[Len(trace')].ev = "get"]_vars

C2_Witness ==
    /\ Len(results) >= 2
    /\ csv.written
    /\ png
    /\ report.written
    /\ "total_requests" \in DOMAIN analysis

\* C3: in every record, success is true exactly when status_code is 200.
C3_SuccessIff200 ==
    \A k \in 1..Len(results) :
        results[k].success <=> (results[k].status_code = 200)

C3_Witness ==
    \E j, k \in 1..Len(results) :
        /\ results[j].success
        /\ results[k].status_code \notin {0, 200}
        /\ ~results[k].success

\* C4 as stated: a record with status_code 0 has a non-empty error string and
\* the three rate-limit fields are 'N/A'.
C4_ErrorNonEmpty ==
    \A k \in 1..Len(results) :
        results[k].status_code = 0 =>
            /\ results[k].error # None
            /\ results[k].error # <<>>
            /\ results[k].rate_limit_remaining = NA
            /\ results[k].rate_limit_limit = NA
            /\ results[k].rate_limit_reset = NA

\* C4 amended: a record with status_code 0 has a string (never None) as its
\* error, namely str(e), which is empty when the exception carries no
\* message, and the three rate-limit fields are 'N/A'.
C4_ErrorIsString ==
    \A k \in 1..Len(results) :
        results[k].status_code = 0 =>
            /\ results[k].error # None
            /\ results[k].rate_limit_remaining = NA
            /\ results[k].rate_limit_limit = NA
            /\ results[k].rate_limit_reset = NA

C4_Witness ==
    \E j, k \in 1..Len(results) :
        /\ results[k].status_code = 0
        /\ results[k].error = <<>>
        /\ results[j].rate_limit_remaining # NA

\* C5: a driver called with N returns only after N requests, each of which
\* added exactly one record, whatever their outcomes; while it runs, the
\* records added so far are those of the iterations completed.
C5_DriverIssuesAll ==
    /\ drv.phase \in {"request", "sleep", "done"} =>
          /\ Len(drv.local) = drv.i + (IF drv.phase = "sleep" THEN 1 ELSE 0)
          /\ Len(Gets(CallTrace)) = Len(drv.local)
          /\ results = SubSeq(results, 1, drv.r0) \o drv.local
    /\ drv.phase = "done" => Len(drv.local) = drv.num_requests

C5_Witness ==
    /\ drv.phase = "done"
    /\ drv.num_requests >= 3
    /\ ~drv.local[1].success
    /\ drv.local[3].success

\* C6: test_sustained_pattern(N, interval) makes N requests and max(N-1, 0)
\* sleeps of duration interval, one between each two consecutive requests
\* and none after the last.
C6_SustainedPattern ==
    (drv.name = "sustained" /\ drv.phase = "done") =>
        LET n == drv.num_requests
        IN  /\ Len(CallTrace) = n + Max(n - 1, 0)
            /\ \A k \in 1..Len(CallTrace) :
                  IF k % 2 = 1
                  THEN CallTrace[k].ev = "get"
                  ELSE /\ CallTrace[k].ev = "sleep"
                       /\ CallTrace[k].d = drv.interval
                       /\ CallTrace[k].at = CallTrace[k - 1].at + drv.interval

C6_Witness ==
    /\ drv.name = "sustained"
    /\ drv.phase = "done"
    /\ drv.num_requests = 3
    /\ Len(SelectSeq(CallTrace, LAMBDA e : e.ev = "sleep")) = 2

\* C7: test_delayed_pattern(N, initial_delay, delay_increment) makes N
\* requests and max(N-1, 0) sleeps; the k-th sleep follows the k-th request
\* and lasts initial_delay + (k-1) * delay_increment; none follows the last
\* request.
C7_DelayedPattern ==
    (drv.name = "delayed" /\ drv.phase = "done") =>
        LET n == drv.num_requests
        IN  /\ Len(CallTrace) = n + Max(n - 1, 0)
            /\ \A k \in 1..Len(CallTrace) :
                  IF k % 2 = 1
                  THEN CallTrace[k].ev = "get"
                  ELSE /\ CallTrace[k].ev = "sleep"
                       /\ CallTrace[k].d =
                             drv.initial_delay + ((k \div 2) - 1) * drv.delay_increment
                       /\ k > 2 => CallTrace[k].d >= CallTrace[k - 2].d

C7_Witness ==
    /\ drv.name = "delayed"
    /\ drv.phase = "done"
    /\ drv.num_requests = 3
    /\ drv.initial_delay = InitialDelay
    /\ drv.delay_increment = DelayIncrement
    /\ CallTrace[2].d = InitialDelay
    /\ CallTrace[4].d = InitialDelay + DelayIncrement

\* C8: with the credential missing, the constructor raises without creating
\* a session or issuing a request (a tester exists only with a non-empty
\* token), and main() returns without constructing the tester, issuing a
\* request, adding a record or writing the CSV, image or report file.
C8_MissingCredentialAborts ==
    /\ session <=> tester = "ready"
    /\ tester = "ready" => Truthy(token)
    /\ tester # "ready" => trace = <<>> /\ results = <<>>
    /\ (entry = "script" /\ TokenMissing(env)) =>
          /\ mainpc \in {"start", "returned"}
          /\ tester = "none"
          /\ ~session
          /\ trace = <<>>
          /\ results = <<>>
          /\ ~csv.written
          /\ ~png
          /\ ~report.written

C8_Witness ==
    /\ entry = "script"
    /\ env = <<>>
    /\ mainpc = "returned"
    /\ exited

\* C9 as stated: run without the credential, the process exits with a
\* non-zero status.
C9_ExitsNonZero ==
    (entry = "script" /\ TokenMissing(env) /\ exited) => exitStatus # 0

\* C9 amended: run without the credential, main() returns early and the
\* process exits with status 0.
C9_ExitsZero ==
    (entry = "script" /\ TokenMissing(env) /\ exited) =>
        mainpc = "returned" /\ exitStatus = 0

C9_Witness ==
    /\ entry = "script"
    /\ env = None
    /\ exited
    /\ stages = <<>>

MainSequence ==
    <<"burst", "sustained", "delayed", "save", "analyze", "visualize", "report">>

\* C10: with a credential, main() runs burst, sustained, delayed, save,
\* analyze, visualize, report, once each and in that order: the sustained
\* pattern starts after the 10 burst records, the delayed one after 30, the
\* four consumers after all 45, whatever the outcomes of the requests.
C10_MainSequence ==
    (entry = "script" /\ ~TokenMissing(env)) =>
        /\ IsPrefix(stages, MainSequence)
        /\ (Len(stages) >= 2 => Len(results) >= BurstN)
        /\ (Len(stages) = 2 => drv.r0 = BurstN)
        /\ (Len(stages) >= 3 => Len(results) >= BurstN + SustainedN)
        /\ (Len(stages) = 3 => drv.r0 = BurstN + SustainedN)
        /\ (Len(stages) >= 4 => Len(results) = BurstN + SustainedN + DelayedN)
        /\ (exited => stages = MainSequence)

\* the number of records of the store that satisfy P
HowMany(store, P(_)) == Cardinality({k \in 1..Len(store) : P(store[k])})

RECURSIVE SumOver(_, _)
SumOver(f, S) ==
    IF S = {} THEN 0
    ELSE LET c == CHOOSE x \in S : TRUE IN f[c] + SumOver(f, S \ {c})

\* the caller has called analyze_results on the store
Analyzed == analysis # NotAnalyzed

\* the figures C11 names, for a summary a
CountsAgree(a, store) ==
    LET n == Len(store)
        s == HowMany(store, LAMBDA r : r.success)
    IN  /\ a.total_requests = n
        /\ a.successful_requests = s
        /\ a.failed_requests = n - s
        /\ a.success_rate[2] # 0
        /\ a.success_rate[1] * n = s * 100 * a.success_rate[2]
        /\ DOMAIN a.status_code_counts = {store[k].status_code : k \in 1..n}
        /\ \A c \in DOMAIN a.status_code_counts :
              a.status_code_counts[c] = HowMany(store, LAMBDA r : r.status_code = c)
        /\ SumOver(a.status_code_counts, DOMAIN a.status_code_counts) = n

\* C11: called on a non-empty store, analyze_results reports total_requests,
\* successful_requests, failed_requests = total - successful, success_rate =
\* successful / total * 100 and the count of each status code that occurs.
C11_AnalyzerCounts ==
    (results # <<>> /\ Analyzed) =>
        /\ "total_requests" \in DOMAIN analysis
        /\ CountsAgree(analysis, results)

\* C12: called on a non-empty store, analyze_results takes the final
\* remaining value from the last record that has rate-limit data and the
\* usage from it and the limit of the first such record; with no such record
\* it omits both keys.
C12_RateLimitSummary ==
    (results # <<>> /\ Analyzed) =>
        LET rl == RateLimitData(results)
        IN  /\ analysis # AnalysisRaised
            /\ IF rl = <<>>
               THEN /\ "final_rate_limit_remaining" \notin DOMAIN analysis
                    /\ "rate_limit_usage" \notin DOMAIN analysis
               ELSE /\ analysis.final_rate_limit_remaining
                          = ToNumeric(rl[Len(rl)].rate_limit_remaining)
                    /\ analysis.rate_limit_usage
                          = UsageOf(analysis.final_rate_limit_remaining,
                                    ParseInt(rl[1].rate_limit_limit))

\* the report generate_report writes for {}
ZeroReport == ReportOf(EmptyDict)

\* C13: on an empty store analyze_results returns {} without raising, and
\* generate_report of that summary writes a report whose counts, success rate
\* and latency figures are zero, with no status-code line and no rate-limit
\* section.
C13_EmptyStore ==
    results = <<>> =>
        /\ (analysis = NotAnalyzed \/ analysis = EmptyDict)
        /\ report.written =>
              /\ report.total_requests = 0
              /\ report.successful_requests = 0
              /\ report.failed_requests = 0
              /\ report.success_rate[1] = 0
              /\ report.avg_response_time_ms[1] = 0
              /\ report.min_response_time_ms = 0
              /\ report.max_response_time_ms = 0
              /\ report.std_response_time_ms.variance[1] = 0
              /\ DOMAIN report.status_lines = {}
              /\ ~report.rate_limit_section

C13_Witness ==
    /\ results = <<>>
    /\ analysis = EmptyDict
    /\ report.written

\* re-reading the file with csv.DictReader: one dictionary per data row
ReadBack(file) ==
    [k \in 1..Len(file.rows) |->
        [key \in Range(file.header) |->
            file.rows[k][CHOOSE j \in 1..Len(file.header) : file.header[j] = key]]]

\* the file holds the store: the header is the first record's keys, there is
\* one row per record in store order, and every cell read back is the text of
\* the record's field (a number reads back as the same number)
FileHoldsStore ==
    /\ csv.written
    /\ ~csv.raised
    /\ csv.header = KeysOf(results[1])
    /\ Len(csv.rows) = Len(results)
    /\ LET back == ReadBack(csv)
       IN  \A k \in 1..Len(results) :
              LET row == back[k]
                  r == results[k]
              IN  /\ KeysOf(r) = csv.header
                  /\ DOMAIN row = DOMAIN r
                  /\ \A key \in DOMAIN r : row[key] = CellOf(key, r[key])
                  /\ ParseInt(row["timestamp"]) = r.timestamp
                  /\ ParseInt(row["status_code"]) = r.status_code
                  /\ ParseInt(row["response_time_ms"]) = r.response_time_ms

\* C14 as stated: for every N >= 0, save_results writes the header of the
\* first record and N rows that read back as the N records.
C14_CsvAllN ==
    Saved => (IF results = <<>>
              THEN csv.written /\ Len(csv.rows) = 0
              ELSE FileHoldsStore)

\* C14 amended: for every N >= 1, save_results writes the header of the first
\* record and N rows that read back as the N records, all records having the
\* same fields in the same order; for N = 0 it writes no file.
C14_CsvRoundTrip ==
    Saved => (IF results = <<>>
              THEN ~csv.written /\ csv.said = "No results to save."
              ELSE FileHoldsStore)

C14_Witness ==
    /\ Len(results) >= 3
    /\ csv.written
    /\ \E j, k \in 1..Len(results) :
          /\ results[j].status_code = 0
          /\ results[k].status_code = 200
          /\ csv.rows[j][Len(csv.header)] = <<>>

====
